---- MODULE Spec2Model ----
(***************************************************************************)
(* Model of deploy.sh, the release script of the backend: one run is       *)
(* parse_arguments followed by main_deployment.  The state is the part of  *)
(* the host the script reads and writes: the deployment directory, the     *)
(* backup directories next to it, the staging directories and the two      *)
(* marker files under /tmp, and the PM2 registration of the application.   *)
(* The host state persists from one run to the next.                       *)
(*                                                                         *)
(* The script runs under `set -e` without `set -E`:                        *)
(*   - a step function that ends with `return 1` makes the call in         *)
(*     main_deployment fail, which runs the ERR trap and then exits;       *)
(*   - a command that fails inside a function, outside any condition,      *)
(*     ends the shell at once: the ERR trap is not inherited by functions; *)
(*   - `x=$(cat file 2>/dev/null)` fails when the file is missing, so it   *)
(*     too ends the shell at once.                                         *)
(***************************************************************************)
EXTENDS Integers, FiniteSets, Sequences, TLC

\* Number of consecutive runs of the script that are explored.
MaxRuns == 2

\* local max_attempts=30 in health_check.
max_attempts == 30

\* BACKUP_RETENTION_DAYS=7
BACKUP_RETENTION_DAYS == 7

\* Exit statuses a failing external command (sudo, pm2, mkdir) may return.
ExtFailCodes == {1, 2}

\* A marker file is the set of path ids it holds ({} when the file is
\* missing); PM2's registration is the set of versions running under
\* $PM2_APP_NAME; the exit status is {} while the script runs.  The files
\* of the release present before the first run carry version 0, those of the
\* artifact of run r carry version r.

FileNames == {"server.js", "package.json", "node_modules", ".env"}

\* A file entry is <<name, version>>; a directory content is a set of entries.
IsDot(name) == name = ".env"

Names(files) == {e[1] : e \in files}

\* The entries a shell glob `dir/*` expands to: names that start with a dot
\* are not matched.
Glob(files) == {e \in files : ~IsDot(e[1])}

\* sudo rm -rf "$DEPLOY_PATH"/*
RmGlob(files) == files \ Glob(files)

\* sudo cp -r "$src"/* "$dst/" : the matched entries replace same-named ones.
CpGlob(src, dst) == {e \in dst : e[1] \notin Names(Glob(src))} \cup Glob(src)

\* What an interrupted recursive copy (or removal) may have handled when it
\* stopped: nothing, or a single entry.
PartialCopies(files) ==
    {s \in SUBSET files : s # files /\ Cardinality(s) <= 1}

\* Versions of the named file in a directory content, {} when absent.
VersionOf(name, files) == {e[2] : e \in {f \in files : f[1] = name}}

Has(name, files) == name \in Names(files)

\* The zip contents the runs are tried with.
ArtifactShapes ==
    { {"server.js", "package.json"},
      {"server.js", "package.json", ".env"},
      {"server.js"},
      {"package.json"} }

Artifact(shape, version) == {<<n, version>> : n \in shape}

Release(version) ==
    Artifact({"server.js", "package.json", "node_modules"}, version)

\* The deployment directory before the first run.
InitialDeployDirs ==
    { [exists |-> FALSE, files |-> {}],
      [exists |-> TRUE,  files |-> {}],
      [exists |-> TRUE,  files |-> Release(0)],
      [exists |-> TRUE,  files |-> Release(0) \cup {<<".env", 0>>}] }

\* The backups present before the first run: none, or two left by earlier
\* releases, one modified 200 hours ago (8 days and 8 hours) and one 180
\* hours ago (7 days and 12 hours).  A backup made by a run is 0 hours old.
InitialBackups ==
    { {},
      { [id |-> 0,  files |-> Release(0), ageHours |-> 200],
        [id |-> -1, files |-> Release(0), ageHours |-> 180] } }

VARIABLES
    pc,               \* position in the script
    run,              \* number of the current run; names this run's paths
    ENABLE_ROLLBACK,  \* set by -r/--rollback
    artifact,         \* contents of the zip given to this run
    deployDir,        \* $DEPLOY_PATH: [exists, files]
    backups,          \* ${DEPLOY_PATH}.backup.* : records [id, files, ageHours]
    tmpDirs,          \* /tmp/backend-deployment-* : records [id, files]
    temp_marker,      \* /tmp/deployment_temp_path : id of a staging dir
    backup_marker,    \* /tmp/deployment_backup_path : id of a backup
    proc,             \* versions PM2 runs under $PM2_APP_NAME
    attempt,          \* local attempt of health_check
    mode,             \* "forward", or "rollback" inside rollback_deployment
    inTrap,           \* TRUE while the ERR trap handler runs
    exitCode,         \* exit status of the run, {} until it ends
    trapStatus,       \* status of the command that triggered the ERR trap
    preDir,           \* deployDir when the run started
    preProc,          \* proc when the run started
    failedStep,       \* the forward step that failed in this run, "" if none
    stopCalls,        \* calls of stop_existing_process in this run
    madeBackup,       \* id of the backup create_backup recorded in this run
    rollbackDone,     \* rollback_deployment reached "Rollback completed"
    helpShown,        \* -h/--help: show_help was called and the run ended
    probes,           \* calls of curl made by health_check in this run
    healthResult,     \* "" until health_check returns, then its verdict
    rollbackCalls,    \* calls of rollback_deployment in this run
    \* The command line, for the specification of parse_arguments:
    argv,             \* "$@" : the arguments not yet consumed
    DEPLOY_ZIP_FILE,  \* set by -z/--zip-file
    DEPLOY_PATH,      \* set by -p/--path
    PM2_APP_NAME,     \* set by -n/--name
    APP_PORT,         \* set by -o/--port
    VERBOSE,          \* set by -v/--verbose
    cwd,              \* working directory of the shell
    unzipped,         \* the file unzip opened, {} when none
    \* The deployment script of the API application (deploy.sh of the api):
    apiPc,            \* position in the script
    currentFiles,     \* names in the working directory (current/)
    envProvided,      \* NODE_ENV or PORT is set in the environment
    pm2Installed,     \* command -v pm2 succeeds
    previousExists,   \* ../previous is a directory
    hadPrevious,      \* ../previous was a directory when the script started
    apiApp,           \* api-app is registered with PM2
    healthPassed,     \* outcome of the curl of the health check, {} before
    apiExit,          \* exit status of the script, {} until it ends
    \* The projects API of the backend (routes/projects behind authMiddleware):
    projects,         \* the documents of the Project collection
    nextId,           \* the _id the next created document gets
    req,              \* the last request, with req.user as the middleware set it
    res,              \* the response to the last request
    \* The mock API (POST /api/users):
    body,             \* req.body of the last request
    reply,            \* the response to the last request
    \* Two runs of the script overlapping on one host:
    shared,           \* clock, /tmp and the deployment directory
    runs              \* per run: position and local variables

\* The variables of a run of the script on the host.
deployVars == <<pc, run, ENABLE_ROLLBACK, artifact, deployDir, backups, tmpDirs,
          temp_marker, backup_marker, proc, attempt, mode, inTrap, exitCode,
          trapStatus, preDir, preProc, failedStep, stopCalls, madeBackup,
          rollbackDone, helpShown, probes, healthResult, rollbackCalls>>

\* The variables of the command line.
cliVars == <<argv, DEPLOY_ZIP_FILE, DEPLOY_PATH, PM2_APP_NAME, APP_PORT,
             VERBOSE, cwd, unzipped>>

\* The variables of the API deployment script.
apiVars == <<apiPc, currentFiles, envProvided, pm2Installed, previousExists,
             hadPrevious, apiApp, healthPassed, apiExit>>

\* The variables of the projects API.
projVars == <<projects, nextId, req, res>>

\* The variables of the mock API.
mockVars == <<body, reply>>

\* The variables of two overlapping runs.
overlapVars == <<shared, runs>>

\* The variables the steps of main_deployment do not touch.
outside == <<cliVars, apiVars, projVars, mockVars, overlapVars>>

\* The variables the command line does not touch, besides those of a run.
notCli == <<apiVars, projVars, mockVars, overlapVars>>

\* The variables the API deployment script does not touch.
notApi == <<deployVars, cliVars, projVars, mockVars, overlapVars>>

\* The variables the projects API does not touch.
notProj == <<deployVars, cliVars, apiVars, mockVars, overlapVars>>

\* The variables the mock API does not touch.
notMock == <<deployVars, cliVars, apiVars, projVars, overlapVars>>

\* The variables two overlapping runs do not touch.
notOverlap == <<deployVars, cliVars, apiVars, projVars, mockVars>>

vars == <<deployVars, outside>>

\* Set when the run starts and constant during it.
config == <<run, ENABLE_ROLLBACK, artifact, preDir, preProc, helpShown>>

\* What the run has been seen to do besides its steps.
observed == <<probes, healthResult, rollbackCalls>>

\* The host's files and processes.
host == <<deployDir, backups, tmpDirs, temp_marker, backup_marker, proc>>

TypeOK ==
    /\ run \in 0..MaxRuns
    /\ ENABLE_ROLLBACK \in BOOLEAN
    /\ deployDir.exists \in BOOLEAN
    /\ deployDir.files \subseteq FileNames \X (0..MaxRuns)
    /\ temp_marker \subseteq 1..MaxRuns
    /\ backup_marker \subseteq 1..MaxRuns
    /\ proc \subseteq 0..MaxRuns
    /\ Cardinality(proc) <= 1
    /\ attempt \in 1..max_attempts
    /\ exitCode \subseteq {0} \cup ExtFailCodes
    /\ helpShown \in BOOLEAN
    /\ probes \in 0..max_attempts
    /\ healthResult \in {"", "Healthy", "Unhealthy"}
    /\ rollbackCalls \in 0..2

\* The paths the command lines name, as lists of components; any other
\* word is a relative path of one component.
PathOf(word) ==
    CASE word = "/tmp/app.zip" -> <<"/", "tmp", "app.zip">>
      [] word = "/srv/app"     -> <<"/", "srv", "app">>
      [] OTHER                 -> <<word>>

\* The directory the script is invoked from.
InvocationDir == <<"/", "home", "deploy">>

\* The regular files of the host that are ZIP archives.
ZipFiles ==
    { <<"/", "home", "deploy", "app.zip">>, <<"/", "tmp", "app.zip">> }

\* How the kernel resolves a path given to a command running in dir.
Resolve(path, dir) ==
    IF path[1] = "/" THEN path ELSE dir \o path

\* The command line before parse_arguments: the defaults of the script.
InitCli ==
    /\ argv = <<>>
    /\ DEPLOY_ZIP_FILE = ""
    /\ DEPLOY_PATH = "/var/www/app"
    /\ PM2_APP_NAME = "node-app"
    /\ APP_PORT = "4000"
    /\ VERBOSE = FALSE
    /\ cwd = InvocationDir
    /\ unzipped = {}

\* The API deployment script before it is started, in a release directory
\* that holds the manifest.
InitApi ==
    /\ apiPc = "check_package_json"
    /\ currentFiles = {"package.json", "server.js"}
    /\ envProvided = FALSE
    /\ pm2Installed = TRUE
    /\ previousExists = FALSE
    /\ hadPrevious = FALSE
    /\ apiApp = FALSE
    /\ healthPassed = {}
    /\ apiExit = {}

\* The projects API before any request: an empty collection.
InitProj ==
    /\ projects = {}
    /\ nextId = 1
    /\ req = [op |-> "", id |-> 0, title |-> {}, authorization |-> {},
              cookie |-> {}, user |-> {}]
    /\ res = [status |-> 0, message |-> "", data |-> {}]

\* The mock API before any request.
InitMock ==
    /\ body = [name |-> {}, email |-> {}, age |-> {}]
    /\ reply = [status |-> 0, message |-> "", data |-> {}]

\* The runs the overlap is studied for.
OverlapRuns == {1, 2}

\* Two runs about to enter main_deployment on a host whose deployment
\* directory holds release 0; the artifact of run p is release p.
InitOverlap ==
    /\ shared = [clock |-> 0, tmp |-> {}, temp_marker |-> {},
                 backup_marker |-> {}, backups |-> {}, deployDir |-> {0}]
    /\ runs = [p \in OverlapRuns |->
                 [pc |-> "create_backup", temp_path |-> {}, backup_path |-> {},
                  deployed |-> {}, restored |-> {}, failed |-> FALSE]]

Init ==
    /\ InitCli
    /\ InitApi
    /\ InitProj
    /\ InitMock
    /\ InitOverlap
    /\ pc = "idle"
    /\ run = 0
    /\ ENABLE_ROLLBACK = FALSE
    /\ artifact = {}
    /\ deployDir \in InitialDeployDirs
    /\ backups \in InitialBackups
    /\ tmpDirs = {}
    /\ temp_marker = {}
    /\ backup_marker = {}
    /\ proc \in {{}, VersionOf("server.js", deployDir.files)}
    /\ attempt = 1
    /\ mode = "forward"
    /\ inTrap = FALSE
    /\ exitCode = {}
    /\ trapStatus = 0
    /\ preDir = deployDir
    /\ preProc = proc
    /\ failedStep = ""
    /\ stopCalls = 0
    /\ madeBackup = {}
    /\ rollbackDone = FALSE
    /\ helpShown = FALSE
    /\ probes = 0
    /\ healthResult = ""
    /\ rollbackCalls = 0


(***************************************************************************)
(* Control flow of main_deployment and of rollback_deployment.             *)
(***************************************************************************)

\* Variant of the step order: the running process is stopped before the
\* archive is extracted and verified.
NextStepStopFirst(step) ==
    CASE step = "validate_prerequisites" -> "create_backup"
      [] step = "create_backup"          -> "stop_existing_process"
      [] step = "stop_existing_process"  -> "extract_artifact"
      [] step = "extract_artifact"       -> "deploy_new_version"
      [] step = "deploy_new_version"     -> "install_dependencies"
      [] step = "install_dependencies"   -> "start_application"
      [] step = "start_application"      -> "health_check"

\* Variant of the step order: the backup is taken after the new version
\* has been copied in.
NextStepBackupLate(step) ==
    CASE step = "validate_prerequisites" -> "extract_artifact"
      [] step = "extract_artifact"       -> "stop_existing_process"
      [] step = "stop_existing_process"  -> "deploy_new_version"
      [] step = "deploy_new_version"     -> "create_backup"
      [] step = "create_backup"          -> "install_dependencies"
      [] step = "install_dependencies"   -> "start_application"
      [] step = "start_application"      -> "health_check"

\* Variant of the step order: the running process is stopped before the
\* backup is taken.
NextStepStopBeforeBackup(step) ==
    CASE step = "validate_prerequisites" -> "stop_existing_process"
      [] step = "stop_existing_process"  -> "create_backup"
      [] step = "create_backup"          -> "extract_artifact"
      [] step = "extract_artifact"       -> "deploy_new_version"
      [] step = "deploy_new_version"     -> "install_dependencies"
      [] step = "install_dependencies"   -> "start_application"
      [] step = "start_application"      -> "health_check"

\* Variant of the step order: the application is started before its
\* dependencies are installed.
NextStepStartBeforeInstall(step) ==
    CASE step = "validate_prerequisites" -> "create_backup"
      [] step = "create_backup"          -> "extract_artifact"
      [] step = "extract_artifact"       -> "stop_existing_process"
      [] step = "stop_existing_process"  -> "deploy_new_version"
      [] step = "deploy_new_version"     -> "start_application"
      [] step = "start_application"      -> "install_dependencies"
      [] step = "install_dependencies"   -> "health_check"

\* main_deployment: the forward steps in the order they are called.
NextStep(step) ==
    CASE step = "validate_prerequisites" -> "create_backup"
      [] step = "create_backup"          -> "extract_artifact"
      [] step = "extract_artifact"       -> "stop_existing_process"
      [] step = "stop_existing_process"  -> "deploy_new_version"
      [] step = "deploy_new_version"     -> "install_dependencies"
      [] step = "install_dependencies"   -> "start_application"
      [] step = "start_application"      -> "health_check"

\* Variant of the rollback: after the restart the backup is copied back
\* once more.
NextRollbackStepRestoreAgain(step) ==
    CASE step = "stop_existing_process"  -> "restore_backup"
      [] step = "restore_backup"         -> "install_dependencies"
      [] step = "install_dependencies"   -> "start_application"
      [] step = "start_application"      -> "restore_backup"

\* Variant of the rollback: the backup is not copied back before the
\* dependencies are installed and the application is restarted.
NextRollbackStepNoRestore(step) ==
    CASE step = "stop_existing_process"  -> "install_dependencies"
      [] step = "restore_backup"         -> "install_dependencies"
      [] step = "install_dependencies"   -> "start_application"
      [] step = "start_application"      -> "rollback_completed"

\* Variant of the rollback: the dependencies are installed before the
\* backup is copied back.
NextRollbackStepInstallFirst(step) ==
    CASE step = "stop_existing_process"  -> "install_dependencies"
      [] step = "install_dependencies"   -> "restore_backup"
      [] step = "restore_backup"         -> "start_application"
      [] step = "start_application"      -> "rollback_completed"

\* rollback_deployment: the steps after the backup has been found.
NextRollbackStep(step) ==
    CASE step = "stop_existing_process"  -> "restore_backup"
      [] step = "restore_backup"         -> "install_dependencies"
      [] step = "install_dependencies"   -> "start_application"
      [] step = "start_application"      -> "rollback_completed"

flow == <<pc, mode, inTrap, exitCode, trapStatus, failedStep, rollbackDone>>

\* The shell exits with the given status.  The first forward step that
\* does not complete is remembered.
Abort(step, code) ==
    /\ pc' = "done"
    /\ exitCode' = {code}
    /\ failedStep' = IF mode = "forward" /\ failedStep = "" THEN step
                     ELSE failedStep
    /\ UNCHANGED <<mode, inTrap, trapStatus, rollbackDone>>

\* The ERR trap set in main_deployment fires for a command of
\* main_deployment that fails outside a condition: the handler starts
\* with cleanup.
RunErrTrap(step, code) ==
    /\ pc' = "trap_cleanup"
    /\ inTrap' = TRUE
    /\ trapStatus' = code
    /\ failedStep' = IF failedStep = "" THEN step ELSE failedStep
    /\ UNCHANGED <<mode, exitCode, rollbackDone>>

\* A step function ends with `return 1`.  Called from main_deployment the
\* failure runs the ERR trap; called from rollback_deployment, a function,
\* where the ERR trap is not inherited, `set -e` ends the shell.
Fail(step) ==
    IF mode = "forward" /\ ~inTrap
    THEN RunErrTrap(step, 1)
    ELSE Abort(step, 1)

\* Variant of the end of the handler: the shell exits with the status of
\* the handler's last command, which succeeded.
TrapEndsWithHandlerStatus ==
    /\ pc' = "done"
    /\ exitCode' = {0}
    /\ UNCHANGED <<mode, inTrap, trapStatus, failedStep>>

\* The ERR trap handler has run to its end: `set -e` ends the shell with
\* the status of the command that failed.
TrapEnds ==
    /\ pc' = "done"
    /\ exitCode' = {trapStatus}
    /\ UNCHANGED <<mode, inTrap, trapStatus, failedStep>>

\* A step function returns 0: the caller goes on with its next command.
\* After the last step of rollback_deployment the caller is either the
\* health-check branch of main_deployment, which goes on to `exit 1`, or
\* the ERR trap handler, which is then at its end.
Advance(step) ==
    IF mode = "forward"
    THEN /\ pc' = NextStep(step)
         /\ UNCHANGED <<mode, inTrap, exitCode, trapStatus, failedStep,
                        rollbackDone>>
    ELSE IF NextRollbackStep(step) = "rollback_completed"
    THEN /\ rollbackDone' = TRUE
         /\ IF inTrap
            THEN TrapEnds
            ELSE /\ pc' = "done"
                 /\ exitCode' = {1}
                 /\ UNCHANGED <<mode, inTrap, trapStatus, failedStep>>
    ELSE /\ pc' = NextRollbackStep(step)
         /\ UNCHANGED <<mode, inTrap, exitCode, trapStatus, failedStep,
                        rollbackDone>>

(***************************************************************************)
(* The script.                                                             *)
(***************************************************************************)

\* Script entry: parse_arguments sets the options, main_deployment installs
\* the ERR trap and calls the first step.
StartRun ==
    /\ pc \in {"idle", "done"}
    /\ run < MaxRuns
    /\ run' = run + 1
    /\ \/ \* -h|--help : show_help; exit 0
          /\ helpShown' = TRUE
          /\ ENABLE_ROLLBACK' = FALSE
          /\ artifact' = {}
          /\ pc' = "done"
          /\ exitCode' = {0}
       \/ \* -z FILE, with or without -r
          /\ helpShown' = FALSE
          /\ \E rb \in BOOLEAN, shape \in ArtifactShapes :
                /\ ENABLE_ROLLBACK' = rb
                /\ artifact' = Artifact(shape, run')
          /\ pc' = "validate_prerequisites"
          /\ exitCode' = {}
    /\ mode' = "forward"
    /\ inTrap' = FALSE
    /\ trapStatus' = 0
    /\ probes' = 0
    /\ healthResult' = ""
    /\ rollbackCalls' = 0
    /\ failedStep' = ""
    /\ rollbackDone' = FALSE
    /\ attempt' = 1
    /\ stopCalls' = 0
    /\ madeBackup' = {}
    /\ preDir' = deployDir
    /\ preProc' = proc
    /\ UNCHANGED <<host, outside>>

\* A required command or the zip file is missing: `exit 1`, which does not
\* run the ERR trap.
validate_prerequisites ==
    /\ pc = "validate_prerequisites"
    /\ \/ Advance("validate_prerequisites")
       \/ Abort("validate_prerequisites", 1)
    /\ UNCHANGED <<outside, config, observed, host, attempt, stopCalls, madeBackup>>

\* Variant of the test: only a missing directory is left without a backup.
NothingToBackupMissingOnly(dir) == ~dir.exists

\* [ ! -d "$DEPLOY_PATH" ] || [ -z "$(ls -A "$DEPLOY_PATH")" ]
NothingToBackup(dir) == ~dir.exists \/ dir.files = {}

create_backup ==
    /\ pc = "create_backup"
    /\ IF NothingToBackup(deployDir)
       THEN \* "No existing deployment to backup"
            /\ Advance("create_backup")
            /\ UNCHANGED <<backups, backup_marker, madeBackup>>
       ELSE \/ \* cp -r succeeds, chown succeeds, the marker is written
               /\ backups' = backups \cup
                    {[id |-> run, files |-> deployDir.files,
                      ageHours |-> 0]}
               /\ backup_marker' = {run}
               /\ madeBackup' = {run}
               /\ Advance("create_backup")
            \/ \* cp -r succeeds, the unguarded chown fails
               /\ backups' = backups \cup
                    {[id |-> run, files |-> deployDir.files,
                      ageHours |-> 0]}
               /\ \E code \in ExtFailCodes : Abort("create_backup", code)
               /\ UNCHANGED <<backup_marker, madeBackup>>
            \/ \* cp -r fails before creating anything: return 1
               /\ Fail("create_backup")
               /\ UNCHANGED <<backups, backup_marker, madeBackup>>
            \/ \* cp -r fails after creating the directory: return 1
               /\ backups' = backups \cup
                    {[id |-> run, files |-> {}, ageHours |-> 0]}
               /\ Fail("create_backup")
               /\ UNCHANGED <<backup_marker, madeBackup>>
    /\ UNCHANGED <<outside, config, observed, deployDir, tmpDirs, temp_marker, proc, attempt,
                   stopCalls>>

\* Variant of the verification: only the entry file is looked for.
RequiredFilesEntryOnly == {"server.js"}

\* The files verified after unzip.
RequiredFiles == {"server.js", "package.json"}

extract_artifact ==
    /\ pc = "extract_artifact"
    /\ \/ \* mkdir -p or cd fails
          /\ \E code \in ExtFailCodes : Abort("extract_artifact", code)
          /\ UNCHANGED <<tmpDirs, temp_marker>>
       \/ \* unzip fails in the new, still empty directory: return 1
          /\ tmpDirs' = tmpDirs \cup {[id |-> run, files |-> {}]}
          /\ Fail("extract_artifact")
          /\ UNCHANGED temp_marker
       \/ \* unzip succeeds
          /\ tmpDirs' = tmpDirs \cup {[id |-> run, files |-> artifact]}
          /\ IF RequiredFiles \subseteq Names(artifact)
             THEN /\ temp_marker' = {run}
                  /\ Advance("extract_artifact")
             ELSE /\ Fail("extract_artifact")
                  /\ UNCHANGED temp_marker
    /\ UNCHANGED <<outside, config, observed, deployDir, backups, backup_marker, proc, attempt,
                   stopCalls, madeBackup>>

\* pm2 stop and pm2 delete never fail the function (|| log_info): a
\* non-zero status of either is taken, as the messages of the script take
\* it, to mean that no process was registered under the name.  The
\* unguarded pm2 save may fail.
stop_existing_process ==
    /\ pc = "stop_existing_process"
    /\ proc' = {}
    /\ stopCalls' = stopCalls + 1
    /\ \/ Advance("stop_existing_process")
       \/ \E code \in ExtFailCodes : Abort("stop_existing_process", code)
    /\ UNCHANGED <<outside, config, observed, deployDir, backups, tmpDirs, temp_marker,
                   backup_marker, attempt, madeBackup>>

\* The files of the directory a marker names ({} when it names none).
DirFiles(dirs, marker) == UNION {d.files : d \in {x \in dirs : x.id \in marker}}

\* sudo rm -rf "$DEPLOY_PATH"/* ; sudo cp -r "$src"/* "$DEPLOY_PATH/" ;
\* sudo chown -R : the deployment directory when all three succeed.
Replaced(src) == [deployDir EXCEPT !.files = CpGlob(src, RmGlob(@))]

\* The same three commands when one of them fails.  None of them is
\* guarded, so the shell ends there.
ReplaceFails(src, step) ==
    /\ \E code \in ExtFailCodes : Abort(step, code)
    /\ \/ \* rm -rf fails after removing only a part
          \E removed \in PartialCopies(Glob(deployDir.files)) :
             deployDir' = [deployDir EXCEPT !.files = @ \ removed]
       \/ \* cp -r fails after copying only a part
          \E part \in PartialCopies(Glob(src)) :
             deployDir' = [deployDir EXCEPT
                             !.files = CpGlob(part, RmGlob(@))]
       \/ \* the glob matches nothing: cp cannot stat "$src/*"
          /\ Glob(src) = {}
          /\ deployDir' = [deployDir EXCEPT !.files = RmGlob(@)]
       \/ \* chown -R fails after the copy
          /\ Glob(src) # {}
          /\ deployDir' = Replaced(src)

deploy_new_version ==
    /\ pc = "deploy_new_version"
    /\ IF temp_marker = {}
       THEN \* temp_path=$(cat /tmp/deployment_temp_path) fails
            /\ Abort("deploy_new_version", 1)
            /\ UNCHANGED deployDir
       ELSE \/ \* sudo mkdir -p fails
               /\ \E code \in ExtFailCodes : Abort("deploy_new_version", code)
               /\ UNCHANGED deployDir
            \/ \* sudo chown fails after mkdir -p
               /\ \E code \in ExtFailCodes : Abort("deploy_new_version", code)
               /\ deployDir' = [deployDir EXCEPT !.exists = TRUE]
            \/ ReplaceFails(DirFiles(tmpDirs, temp_marker),
                            "deploy_new_version")
            \/ /\ Glob(DirFiles(tmpDirs, temp_marker)) # {}
               /\ deployDir' =
                    [Replaced(DirFiles(tmpDirs, temp_marker))
                       EXCEPT !.exists = TRUE]
               /\ IF Has("server.js", deployDir'.files)
                  THEN Advance("deploy_new_version")
                  ELSE Fail("deploy_new_version")
    /\ UNCHANGED <<outside, config, observed, backups, tmpDirs, temp_marker, backup_marker,
                   proc, attempt, stopCalls, madeBackup>>

\* npm ci --omit=dev : removes node_modules and installs what the manifest
\* of the directory names.
NpmCi(files) ==
    {e \in files : e[1] # "node_modules"}
       \cup ({"node_modules"} \X VersionOf("package.json", files))

install_dependencies ==
    /\ pc = "install_dependencies"
    /\ \/ /\ Has("package.json", deployDir.files)
          /\ deployDir' = [deployDir EXCEPT !.files = NpmCi(@)]
          /\ Advance("install_dependencies")
       \/ \* npm ci exits non-zero, with node_modules removed or not
          /\ \/ UNCHANGED deployDir
             \/ deployDir' = [deployDir EXCEPT
                   !.files = {e \in @ : e[1] # "node_modules"}]
          /\ Fail("install_dependencies")
    /\ UNCHANGED <<outside, config, observed, backups, tmpDirs, temp_marker, backup_marker,
                   proc, attempt, stopCalls, madeBackup>>

start_application ==
    /\ pc = "start_application"
    /\ \/ \* pm2 start and pm2 save succeed
          /\ Has("server.js", deployDir.files)
          /\ proc' = VersionOf("server.js", deployDir.files)
          /\ Advance("start_application")
       \/ \* pm2 start succeeds, the unguarded pm2 save fails
          /\ Has("server.js", deployDir.files)
          /\ proc' = VersionOf("server.js", deployDir.files)
          /\ \E code \in ExtFailCodes : Abort("start_application", code)
       \/ \* pm2 start fails: return 1
          /\ UNCHANGED proc
          /\ Fail("start_application")
    /\ UNCHANGED <<outside, config, observed, deployDir, backups, tmpDirs, temp_marker,
                   backup_marker, attempt, stopCalls, madeBackup>>

\* Variant of the loop exit: the loop gives up one attempt early.
GivesUpEarly(a) == a >= max_attempts - 1

\* [ $attempt -eq $max_attempts ]
GivesUp(a) == a = max_attempts

\* Variant of the option test: rollback is taken as always enabled.
RollbackEnabledAlways(flag) == TRUE

\* [ "$ENABLE_ROLLBACK" = true ]
RollbackEnabled(flag) == flag = TRUE

\* One iteration of the loop of health_check, ok telling whether curl -f
\* succeeded.  health_check is the condition of an `if`, so its failure
\* does not run the ERR trap: main_deployment calls rollback_deployment
\* when rollback is enabled and then exits 1.
HealthCheckWith(ok) ==
    /\ pc = "health_check"
    /\ probes' = probes + 1
    /\ IF ok
       THEN \* return 0, then the summary and cleanup
            /\ pc' = "cleanup"
            /\ healthResult' = "Healthy"
            /\ UNCHANGED <<attempt, exitCode, failedStep>>
       ELSE IF ~GivesUp(attempt)
       THEN \* sleep 2; ((attempt++))
            /\ attempt' = attempt + 1
            /\ UNCHANGED <<pc, exitCode, failedStep, healthResult>>
       ELSE \* "Health check failed after $max_attempts attempts": return 1
            /\ healthResult' = "Unhealthy"
            /\ failedStep' = "health_check"
            /\ IF RollbackEnabled(ENABLE_ROLLBACK)
               THEN pc' = "rollback_deployment" /\ UNCHANGED exitCode
               ELSE pc' = "done" /\ exitCode' = {1}
            /\ UNCHANGED attempt
    /\ UNCHANGED <<outside, config, host, mode, inTrap, trapStatus, rollbackDone,
                   stopCalls, madeBackup, rollbackCalls>>

\* The probed service is not looked into: any probe may succeed or fail.
health_check == \E ok \in BOOLEAN : HealthCheckWith(ok)

\* find -mtime +days : the age is counted in whole 24-hour periods, the
\* fraction dropped, and must exceed days.
MtimeOlder(ageHours, days) == ageHours \div 24 > days

\* cleanup, called at the end of a successful run (pc = "cleanup") and
\* first in the ERR trap handler (pc = "trap_cleanup").
cleanup ==
    /\ pc \in {"cleanup", "trap_cleanup"}
    /\ IF temp_marker = {}
       THEN \* temp_path=$(cat /tmp/deployment_temp_path) fails
            /\ Abort("cleanup", 1)
            /\ UNCHANGED <<tmpDirs, temp_marker, backup_marker, backups>>
       ELSE /\ tmpDirs' = {d \in tmpDirs : d.id \notin temp_marker}
            /\ temp_marker' = {}
            /\ backup_marker' = {}
            /\ backups' =
                 IF RollbackEnabled(ENABLE_ROLLBACK)
                 THEN {b \in backups :
                         ~MtimeOlder(b.ageHours, BACKUP_RETENTION_DAYS)}
                 ELSE backups
            /\ IF pc = "cleanup"
               THEN /\ pc' = "done"
                    /\ exitCode' = {0}
                    /\ UNCHANGED <<mode, inTrap, trapStatus, failedStep>>
               ELSE IF RollbackEnabled(ENABLE_ROLLBACK)
               THEN /\ pc' = "rollback_deployment"
                    /\ UNCHANGED <<mode, inTrap, exitCode, trapStatus,
                                   failedStep>>
               ELSE TrapEnds
            /\ UNCHANGED rollbackDone
    /\ UNCHANGED <<outside, config, observed, deployDir, proc, attempt, stopCalls, madeBackup>>

\* rollback_deployment up to "Rolling back to previous version...".
rollback_deployment ==
    /\ pc = "rollback_deployment"
    /\ rollbackCalls' = rollbackCalls + 1
    /\ IF ~RollbackEnabled(ENABLE_ROLLBACK)
       THEN \* "Rollback not enabled, skipping...": return 0
            /\ IF inTrap
               THEN TrapEnds
               ELSE /\ pc' = "done"
                    /\ exitCode' = {1}
                    /\ UNCHANGED <<mode, inTrap, trapStatus, failedStep>>
            /\ UNCHANGED rollbackDone
       ELSE IF backup_marker = {}
       THEN \* backup_path=$(cat /tmp/deployment_backup_path) fails
            Abort("rollback_deployment", 1)
       ELSE IF \A b \in backups : b.id \notin backup_marker
       THEN \* "No backup found for rollback": return 1
            IF inTrap
            THEN Abort("rollback_deployment", 1)
            ELSE RunErrTrap("rollback_deployment", 1)
       ELSE /\ pc' = "stop_existing_process"
            /\ mode' = "rollback"
            /\ UNCHANGED <<inTrap, exitCode, trapStatus, failedStep,
                           rollbackDone>>
    /\ UNCHANGED <<outside, config, host, attempt, stopCalls, madeBackup, probes,
                   healthResult>>

\* rollback_deployment, "Restore backup".
restore_backup ==
    /\ pc = "restore_backup"
    /\ \/ ReplaceFails(DirFiles(backups, backup_marker), "restore_backup")
       \/ /\ Glob(DirFiles(backups, backup_marker)) # {}
          /\ deployDir.exists
          /\ deployDir' = Replaced(DirFiles(backups, backup_marker))
          /\ Advance("restore_backup")
    /\ UNCHANGED <<outside, config, observed, backups, tmpDirs, temp_marker, backup_marker,
                   proc, attempt, stopCalls, madeBackup>>

Next ==
    \/ StartRun
    \/ validate_prerequisites
    \/ create_backup
    \/ extract_artifact
    \/ stop_existing_process
    \/ deploy_new_version
    \/ install_dependencies
    \/ start_application
    \/ health_check
    \/ cleanup
    \/ rollback_deployment
    \/ restore_backup

Spec == Init /\ [][Next]_vars

(***************************************************************************)
(* Properties.                                                             *)
(***************************************************************************)

\* A run has started and the directory held something when it did.
StartedNonEmpty == run >= 1 /\ preDir.exists /\ preDir.files # {}

\* The run unpacked its archive into its staging directory.
Unpacked == \E d \in tmpDirs : d.id = run /\ d.files = artifact

\* The backup create_backup made in this run, if it still exists.
OwnBackupExists ==
    \E b \in backups : b.id = run /\ b.files = preDir.files

\* A directory content without the installed dependency tree.
SansDeps(files) == {e \in files : e[1] # "node_modules"}

\* C1: during a run that starts with a complete previous release, the
\* deployment directory always holds either that previous release, untouched,
\* or the complete new release (entry file, manifest and installed
\* dependencies of the artifact and nothing left of the previous release
\* among the replaced files).
C1_DirAlwaysComplete ==
    (run >= 1 /\ Release(0) \subseteq preDir.files)
        => \/ deployDir.files = preDir.files
           \/ Glob(deployDir.files) = Release(run)

\* C2: with rollback enabled, a non-empty directory and a backup made by
\* create_backup, a failure of any later step leaves, at script exit, the
\* deployment directory with the contents it had before the run.
C2_FailureRestoresDir ==
    (/\ pc = "done"
     /\ ENABLE_ROLLBACK
     /\ StartedNonEmpty
     /\ madeBackup # {}
     /\ failedStep \in {"extract_artifact", "stop_existing_process",
                        "deploy_new_version", "install_dependencies",
                        "start_application", "health_check"})
        => deployDir = preDir

\* C3: scenario B.  With a prior release deployed and rollback enabled, when
\* npm ci of the new release exits non-zero the run ends with exit status 1
\* and the application registered and running from the restored previous
\* release.
C3_ScenarioB ==
    (/\ pc = "done"
     /\ ENABLE_ROLLBACK
     /\ Release(0) \subseteq preDir.files
     /\ artifact = Artifact({"server.js", "package.json"}, run)
     /\ failedStep = "install_dependencies")
        => /\ exitCode = {1}
           /\ proc = VersionOf("server.js", preDir.files)
           /\ SansDeps(deployDir.files) = SansDeps(preDir.files)

\* C4: when health_check fails in a run with rollback enabled in which
\* create_backup made a backup, the script exits non-zero and
\* rollback_deployment is entered and stops the new process; when its
\* commands succeed the deployment directory again holds the backup's
\* contents and the application runs the previous version.
C4_HealthFailureRollsBack ==
    (/\ pc = "done"
     /\ failedStep = "health_check"
     /\ ENABLE_ROLLBACK
     /\ madeBackup # {})
        => /\ exitCode # {} /\ 0 \notin exitCode
           /\ stopCalls = 2
           /\ rollbackDone =>
                /\ SansDeps(deployDir.files)
                     = SansDeps(DirFiles(backups, madeBackup))
                /\ DirFiles(backups, madeBackup) = preDir.files
                /\ proc # {}
                /\ proc = VersionOf("server.js", preDir.files)

C4_Witness ==
    /\ pc = "done"
    /\ failedStep = "health_check"
    /\ ENABLE_ROLLBACK
    /\ madeBackup # {}
    /\ rollbackDone
    /\ exitCode = {1}
    /\ proc = VersionOf("server.js", preDir.files)
    /\ deployDir = preDir

\* C5: whenever rollback_deployment is invoked in a run in which
\* create_backup recorded a backup path, the backup-path marker still holds
\* that path.
C5_MarkerPresentAtRollback ==
    (pc = "rollback_deployment" /\ madeBackup # {})
        => madeBackup \subseteq backup_marker

\* C6: every run that begins the deployment steps has, at exit, no staging
\* directory of its own and neither marker file left.
C6_CleanAtExit ==
    (pc = "done" /\ failedStep # "validate_prerequisites")
        => /\ temp_marker = {}
           /\ backup_marker = {}
           /\ \A d \in tmpDirs : d.id # run

\* C7 as stated: for an unpacked archive that lacks package.json the run
\* ends with exit status 1, no backup directory was created by the run and
\* stop_existing_process was not invoked.
C7_ScenarioC_Original ==
    (pc = "done" /\ Unpacked /\ ~Has("package.json", artifact))
        => /\ exitCode = {1}
           /\ \A b \in backups : b.id # run
           /\ stopCalls = 0

\* C7 amended: for an unpacked archive that lacks package.json the run
\* fails at extract_artifact with exit status 1 and stop_existing_process is
\* not invoked; the run has created a backup directory exactly when the
\* deployment directory was non-empty at start (create_backup runs before
\* extract_artifact).
C7_ScenarioC ==
    (pc = "done" /\ Unpacked /\ ~Has("package.json", artifact))
        => /\ exitCode = {1}
           /\ failedStep = "extract_artifact"
           /\ stopCalls = 0
           /\ proc = preProc
           /\ OwnBackupExists <=> StartedNonEmpty

C7_Witness ==
    /\ pc = "done"
    /\ Unpacked
    /\ ~Has("package.json", artifact)
    /\ failedStep = "extract_artifact"
    /\ exitCode = {1}
    /\ OwnBackupExists

\* C8: for an archive missing server.js or package.json the run never gets
\* past extract_artifact, and the deployment directory keeps, up to and at
\* exit, the contents it had before the run, with rollback enabled or not.
C8_InvalidArtifactLeavesDir ==
    (/\ run >= 1
     /\ ~helpShown
     /\ ~({"server.js", "package.json"} \subseteq Names(artifact)))
        => /\ deployDir = preDir
           /\ pc \in {"validate_prerequisites", "create_backup",
                      "extract_artifact", "trap_cleanup",
                      "rollback_deployment", "done"}
           /\ pc = "done" =>
                failedStep \in {"validate_prerequisites", "create_backup",
                                "extract_artifact"}

C8_Witness ==
    /\ pc = "done"
    /\ ~({"server.js", "package.json"} \subseteq Names(artifact))
    /\ Unpacked
    /\ failedStep = "extract_artifact"
    /\ ENABLE_ROLLBACK
    /\ StartedNonEmpty
    /\ deployDir = preDir

\* C9: deploy_new_version is reached only after create_backup has
\* completed, and no step removes a file from a deployment directory that
\* was non-empty at start unless the complete backup copy made by this run
\* exists.
C9_BackupPrecedesClear ==
    [][ /\ (pc' = "deploy_new_version" /\ StartedNonEmpty')
            => (madeBackup' = {run'} /\ OwnBackupExists')
        /\ (StartedNonEmpty /\ ~(deployDir.files \subseteq deployDir'.files))
            => (OwnBackupExists /\ OwnBackupExists') ]_vars

C9_Witness ==
    /\ pc = "install_dependencies"
    /\ mode = "forward"
    /\ StartedNonEmpty
    /\ ~(preDir.files \subseteq deployDir.files)
    /\ OwnBackupExists

\* C10: when create_backup fails, the run ends with a non-zero exit status
\* without stop_existing_process or deploy_new_version having run: the
\* application is as it was and the deployment directory is unmodified.
C10_BackupFailureAborts ==
    failedStep = "create_backup"
        => /\ stopCalls = 0
           /\ proc = preProc
           /\ deployDir = preDir
           /\ pc \in {"trap_cleanup", "rollback_deployment", "done"}
           /\ pc = "done" => (exitCode # {} /\ 0 \notin exitCode)

C10_Witness ==
    /\ pc = "done"
    /\ failedStep = "create_backup"
    /\ ENABLE_ROLLBACK
    /\ inTrap
    /\ proc # {}
    /\ proc = preProc
    /\ deployDir = preDir
    /\ exitCode = {1}

\* C11: when the deployment directory is missing or empty, create_backup
\* creates no backup directory, records no backup path and returns success,
\* so the run goes on to extract_artifact; when every later step then
\* succeeds and the first probe of health_check succeeds, the run exits 0
\* without rollback_deployment having been called.
C11_NothingToBackup ==
    [][ /\ (pc = "create_backup"
               /\ (~deployDir.exists \/ deployDir.files = {}))
            => /\ backups' = backups
               /\ backup_marker' = backup_marker
               /\ madeBackup' = {}
               /\ pc' = "extract_artifact"
               /\ exitCode' = {}
        /\ (/\ pc' = "done"
            /\ ~helpShown'
            /\ (~preDir'.exists \/ preDir'.files = {})
            /\ failedStep' = ""
            /\ healthResult' = "Healthy"
            /\ probes' = 1)
            => /\ exitCode' = {0}
               /\ rollbackCalls' = 0
               /\ \A b \in backups' : b.id # run' ]_vars

C11_Witness ==
    /\ pc = "done"
    /\ preDir.exists
    /\ preDir.files = {}
    /\ madeBackup = {}
    /\ \A b \in backups : b.id # run
    /\ probes = 1
    /\ healthResult = "Healthy"
    /\ rollbackCalls = 0
    /\ exitCode = {0}
    /\ Glob(deployDir.files) = Release(run)

\* C12: health_check probes one attempt at a time.  It returns Healthy at
\* the first probe that succeeds and probes no further; when no probe
\* succeeds it returns Unhealthy after exactly 30 probes, never fewer and
\* never more.
C12_ProbesBounded ==
    [][ /\ (run' = run /\ probes' # probes) => probes' = probes + 1
        /\ probes' <= 30
        /\ (healthResult = "" /\ healthResult' = "Healthy")
            => (probes' = probes + 1 /\ pc' # "health_check")
        /\ healthResult' = "Unhealthy" => probes' = 30
        /\ (run' = run /\ healthResult # "")
            => (probes' = probes /\ healthResult' = healthResult)
        /\ (pc = "health_check" /\ pc' = "health_check")
            => (healthResult' = "" /\ probes' < 30) ]_vars

C12_Witness ==
    /\ pc = "done"
    /\ healthResult = "Unhealthy"
    /\ probes = 30
    /\ exitCode = {1}

\* C13: in a run without -r/--rollback no rollback action is performed (no
\* second stop of the process, no restore of a backup, no reinstall or
\* restart by rollback_deployment); after a health-check failure the run
\* exits with status 1 and the deployment directory still holds the new
\* release, which stays registered with PM2.
C13_NoRollbackWhenDisabled ==
    (run >= 1 /\ ~helpShown /\ ~ENABLE_ROLLBACK)
        => /\ mode = "forward"
           /\ pc # "restore_backup"
           /\ stopCalls <= 1
           /\ ~rollbackDone
           /\ (pc = "done" /\ failedStep = "health_check")
                => /\ exitCode = {1}
                   /\ Release(run) \subseteq deployDir.files
                   /\ proc = {run}

C13_Witness ==
    /\ pc = "done"
    /\ ~helpShown
    /\ ~ENABLE_ROLLBACK
    /\ StartedNonEmpty
    /\ madeBackup # {}
    /\ failedStep = "health_check"
    /\ exitCode = {1}
    /\ Release(run) \subseteq deployDir.files
    /\ proc = {run}

\* C14: when a successful run ends (health check passed, cleanup run), every
\* backup directory older than the retention window of 7 days has been
\* removed and every backup within the window, the one made by this run
\* included, is retained.
C14_RetentionSweep ==
    [][ (pc = "cleanup" /\ pc' = "done" /\ exitCode' = {0})
            => backups' = {b \in backups : b.ageHours <= 7 * 24} ]_vars

\* C15 as stated: the script exits with status 0 exactly when every
\* deployment step succeeded and health_check passed, and every validation,
\* extraction, deploy, dependency-install, start or health-check failure
\* makes it exit with status 1.
C15_ExitStatus_Original ==
    pc = "done"
        => /\ exitCode = {0} <=> (failedStep = "" /\ healthResult = "Healthy")
           /\ failedStep \in {"validate_prerequisites", "extract_artifact",
                              "deploy_new_version", "install_dependencies",
                              "start_application", "health_check"}
                => exitCode = {1}

\* C15 amended: a --help run exits 0 without running a step; any other run
\* exits 0 exactly when every deployment step succeeded and health_check
\* passed.  Every failure makes the run exit non-zero: with status 1 for a
\* validation or dependency-install failure and for a health-check failure
\* without rollback, and elsewhere with 1 or with the status of the
\* unguarded command that failed.
C15_ExitStatus ==
    pc = "done"
        => /\ helpShown => (exitCode = {0} /\ failedStep = "" /\ probes = 0)
           /\ ~helpShown =>
                (exitCode = {0} <=> (failedStep = "" /\ healthResult = "Healthy"))
           /\ failedStep # "" =>
                (exitCode # {} /\ 0 \notin exitCode)
           /\ (\/ failedStep \in {"validate_prerequisites",
                                  "install_dependencies"}
               \/ (failedStep = "health_check" /\ ~ENABLE_ROLLBACK))
                => exitCode = {1}

C15_Witness ==
    /\ pc = "done"
    /\ ~helpShown
    /\ failedStep = "deploy_new_version"
    /\ exitCode = {2}

\* C16: once rollback_deployment has found its backup it performs, in this
\* order: stop and delete the PM2 process, replace the contents of the
\* deployment directory by those of the backup, reinstall the dependencies,
\* start the process under the same name; any of them may end the run, and
\* health_check is not invoked once the rollback has begun.
C16_RollbackOrder ==
    [][ /\ (mode' = "rollback" /\ pc' # pc)
            => \/ <<pc, pc'>> \in
                    { <<"rollback_deployment", "stop_existing_process">>,
                      <<"stop_existing_process", "restore_backup">>,
                      <<"restore_backup", "install_dependencies">>,
                      <<"install_dependencies", "start_application">> }
               \/ /\ pc' = "done"
                  /\ pc \in {"stop_existing_process", "restore_backup",
                             "install_dependencies", "start_application"}
        /\ (mode' = "rollback" /\ pc' = "restore_backup")
            => proc' = {}
        /\ (mode' = "rollback" /\ pc' = "install_dependencies")
            => /\ proc' = {}
               /\ Glob(deployDir'.files)
                    = Glob(DirFiles(backups', backup_marker'))
        /\ (mode' = "rollback" /\ pc' = "start_application")
            => /\ proc' = {}
               /\ VersionOf("node_modules", deployDir'.files)
                    = VersionOf("package.json",
                                DirFiles(backups', backup_marker'))
        /\ rollbackDone'
            => /\ proc' # {}
               /\ proc' = VersionOf("server.js",
                                    DirFiles(backups', backup_marker'))
        /\ (mode = "rollback" /\ run' = run)
            => (probes' = probes /\ pc' # "health_check") ]_vars

C16_Witness ==
    /\ pc = "done"
    /\ mode = "rollback"
    /\ rollbackDone
    /\ probes = 30
    /\ proc # {}
    /\ proc = VersionOf("server.js", DirFiles(backups, backup_marker))
    /\ Glob(deployDir.files) = Glob(DirFiles(backups, backup_marker))

\* C17: when a step fails in a run with rollback enabled in which
\* create_backup made no backup, rollback_deployment stops no process and
\* changes no file of the deployment directory (none of its steps runs),
\* and the run ends with a non-zero exit status.
C17_RollbackUnavailable ==
    (ENABLE_ROLLBACK /\ madeBackup = {} /\ failedStep # "")
        => /\ mode = "forward"
           /\ pc \in {"trap_cleanup", "rollback_deployment", "done"}
           /\ pc = "done" => (exitCode # {} /\ 0 \notin exitCode)

C19_ExactlyArtifact ==
    [][ (pc = "deploy_new_version" /\ pc' = "install_dependencies")
            => deployDir'.files = artifact ]_vars

(***************************************************************************)
(* The backend application (src/app.js of the backend) behind the probe    *)
(* of health_check.                                                        *)
(***************************************************************************)

\* The path of the URL health_check gives to curl.
HealthProbePath == "/api/health"

\* The status the Express application answers with, for paths outside the
\* /auth and /projects routers: GET /health is served with 200, any other
\* request reaches notFound, whose error the errorHandler sends as 404.
BackendStatus(method, path) ==
    IF method = "GET" /\ path = "/health" THEN 200 ELSE 404

\* curl -f exits non-zero when the HTTP status is 400 or above.
CurlSucceeds(status) == status < 400

\* One iteration of the loop of health_check with the backend, started by
\* start_application and listening, as the probed service.
backend_health_check ==
    HealthCheckWith(/\ proc # {}
                    /\ CurlSucceeds(BackendStatus("GET", HealthProbePath)))

NextBackend ==
    \/ StartRun
    \/ validate_prerequisites
    \/ create_backup
    \/ extract_artifact
    \/ stop_existing_process
    \/ deploy_new_version
    \/ install_dependencies
    \/ start_application
    \/ backend_health_check
    \/ cleanup
    \/ rollback_deployment
    \/ restore_backup

SpecBackend == Init /\ [][NextBackend]_vars

\* C20: when the backend of this repository has been deployed and started
\* by the script and is ready on the configured port, the probe of
\* health_check gets a 2xx answer from the service's health endpoint, so the
\* run is judged Healthy and exits 0.
C20_BackendJudgedHealthy ==
    (pc = "done" /\ probes >= 1)
        => (healthResult = "Healthy" /\ exitCode = {0})

(***************************************************************************)
(* The command line: parse_arguments, the ZIP tests of                     *)
(* validate_prerequisites and the unzip of extract_artifact, for one run   *)
(* invoked from InvocationDir.                                             *)
(***************************************************************************)

\* Longest command line explored.
MaxArgs == 4

\* The words the command lines are made of.
ArgWords ==
    { "-z", "--zip-file", "-p", "--path", "--name", "-o", "--port", "-r",
      "-v", "-h", "3000", "/srv/app", "app.zip", "/tmp/app.zip" }

ArgLists == UNION {[1..n -> ArgWords] : n \in 0..MaxArgs}

\* The staging directory of the run, created empty by mkdir -p.
TempPath == <<"/", "tmp", "backend-deployment-1">>

\* The variables of a deployment that the command line does not set.
deployRest == <<run, artifact, deployDir, backups, tmpDirs, temp_marker,
                backup_marker, proc, attempt, mode, inTrap, trapStatus,
                preDir, preProc, stopCalls, madeBackup, rollbackDone, probes,
                healthResult, rollbackCalls>>

InitArgs ==
    /\ argv \in ArgLists
    /\ DEPLOY_ZIP_FILE = ""
    /\ DEPLOY_PATH = "/var/www/app"
    /\ PM2_APP_NAME = "node-app"
    /\ APP_PORT = "4000"
    /\ VERBOSE = FALSE
    /\ ENABLE_ROLLBACK = FALSE
    /\ cwd = InvocationDir
    /\ unzipped = {}
    /\ InitProj
    /\ InitMock
    /\ InitOverlap
    /\ pc = "parse_arguments"
    /\ exitCode = {}
    /\ failedStep = ""
    /\ helpShown = FALSE
    /\ run = 1
    /\ artifact = {}
    /\ deployDir = [exists |-> FALSE, files |-> {}]
    /\ backups = {}
    /\ tmpDirs = {}
    /\ temp_marker = {}
    /\ backup_marker = {}
    /\ proc = {}
    /\ attempt = 1
    /\ mode = "forward"
    /\ inTrap = FALSE
    /\ trapStatus = 0
    /\ preDir = deployDir
    /\ preProc = proc
    /\ stopCalls = 0
    /\ madeBackup = {}
    /\ rollbackDone = FALSE
    /\ probes = 0
    /\ healthResult = ""
    /\ rollbackCalls = 0
    /\ InitApi

\* The options of the case statement that take a value ($2, shift 2).
ValueOptions ==
    {"-z", "--zip-file", "-p", "--path", "-n", "--name", "-o", "--port"}

\* The options that take none (shift).
FlagOptions == {"-r", "--rollback", "-v", "--verbose"}

\* One iteration of the while loop of parse_arguments; with no argument
\* left the script goes on to main_deployment.  A value option that is the
\* last word is assigned the empty "$2", and `shift 2` then fails, which
\* ends the shell under set -e.
parse_arguments ==
    /\ pc = "parse_arguments"
    /\ IF argv = <<>>
       THEN /\ pc' = "validate_zip_file"
            /\ UNCHANGED <<argv, DEPLOY_ZIP_FILE, DEPLOY_PATH, PM2_APP_NAME,
                           APP_PORT, ENABLE_ROLLBACK, VERBOSE, helpShown,
                           exitCode>>
       ELSE LET opt   == argv[1]
                value == IF Len(argv) >= 2 THEN argv[2] ELSE ""
            IN  /\ DEPLOY_ZIP_FILE' =
                     IF opt \in {"-z", "--zip-file"} THEN value
                     ELSE DEPLOY_ZIP_FILE
                /\ DEPLOY_PATH' =
                     IF opt \in {"-p", "--path"} THEN value ELSE DEPLOY_PATH
                /\ PM2_APP_NAME' =
                     IF opt \in {"-n", "--name"} THEN value ELSE PM2_APP_NAME
                /\ APP_PORT' =
                     IF opt \in {"-o", "--port"} THEN value ELSE APP_PORT
                /\ ENABLE_ROLLBACK' =
                     (ENABLE_ROLLBACK \/ opt \in {"-r", "--rollback"})
                /\ VERBOSE' = (VERBOSE \/ opt \in {"-v", "--verbose"})
                /\ helpShown' = (opt \in {"-h", "--help"})
                /\ IF opt \in ValueOptions /\ Len(argv) >= 2
                   THEN /\ argv' = SubSeq(argv, 3, Len(argv))
                        /\ UNCHANGED <<pc, exitCode>>
                   ELSE IF opt \in FlagOptions
                   THEN /\ argv' = Tail(argv)
                        /\ UNCHANGED <<pc, exitCode>>
                   ELSE \* shift 2 fails, or unknown option: exit 1;
                        \* -h|--help: exit 0
                        /\ pc' = "done"
                        /\ exitCode' =
                             IF opt \in {"-h", "--help"} THEN {0} ELSE {1}
                        /\ UNCHANGED argv
    /\ UNCHANGED <<notCli, deployRest, failedStep, cwd, unzipped>>

\* validate_prerequisites, the tests of "$DEPLOY_ZIP_FILE": [ -z ... ] and
\* [ ! -f ... ], evaluated in the directory the script was invoked from.
validate_zip_file ==
    /\ pc = "validate_zip_file"
    /\ IF \/ DEPLOY_ZIP_FILE = ""
          \/ Resolve(PathOf(DEPLOY_ZIP_FILE), cwd) \notin ZipFiles
       THEN /\ pc' = "done"
            /\ exitCode' = {1}
            /\ failedStep' = "validate_prerequisites"
       ELSE /\ pc' = "unzip_artifact"
            /\ UNCHANGED <<exitCode, failedStep>>
    /\ UNCHANGED <<notCli, deployRest, cliVars, ENABLE_ROLLBACK, helpShown>>

\* extract_artifact: mkdir -p "$temp_path"; cd "$temp_path";
\* unzip -q "$DEPLOY_ZIP_FILE".  A failed unzip makes the function return 1
\* and the run end with status 1.
unzip_artifact ==
    /\ pc = "unzip_artifact"
    /\ cwd' = TempPath
    /\ IF Resolve(PathOf(DEPLOY_ZIP_FILE), cwd') \in ZipFiles
       THEN /\ unzipped' = {Resolve(PathOf(DEPLOY_ZIP_FILE), cwd')}
            /\ pc' = "extracted"
            /\ UNCHANGED <<exitCode, failedStep>>
       ELSE /\ unzipped' = {}
            /\ pc' = "done"
            /\ exitCode' = {1}
            /\ failedStep' = "extract_artifact"
    /\ UNCHANGED <<notCli, deployRest, argv, DEPLOY_ZIP_FILE, DEPLOY_PATH,
                   PM2_APP_NAME, APP_PORT, VERBOSE, ENABLE_ROLLBACK,
                   helpShown>>

NextArgs ==
    \/ parse_arguments
    \/ validate_zip_file
    \/ unzip_artifact

SpecArgs == InitArgs /\ [][NextArgs]_vars

\* C21: `-p PORT` and `--port PORT` set the application port and leave the
\* deployment path at its own value; `--path`, `--name` and `--zip-file`
\* set only their own setting; any other word leaves the port as it is
\* (4000 when no port option is given).
C21_OptionsSetOwnSetting ==
    [][ (pc = "parse_arguments" /\ Len(argv) >= 2)
            => /\ argv[1] \in {"-p", "--port"}
                    => /\ APP_PORT' = argv[2]
                       /\ UNCHANGED <<DEPLOY_PATH, PM2_APP_NAME,
                                      DEPLOY_ZIP_FILE>>
               /\ argv[1] = "--path"
                    => /\ DEPLOY_PATH' = argv[2]
                       /\ UNCHANGED <<APP_PORT, PM2_APP_NAME,
                                      DEPLOY_ZIP_FILE>>
               /\ argv[1] = "--name"
                    => /\ PM2_APP_NAME' = argv[2]
                       /\ UNCHANGED <<APP_PORT, DEPLOY_PATH,
                                      DEPLOY_ZIP_FILE>>
               /\ argv[1] = "--zip-file"
                    => /\ DEPLOY_ZIP_FILE' = argv[2]
                       /\ UNCHANGED <<APP_PORT, DEPLOY_PATH, PM2_APP_NAME>>
               /\ argv[1] \notin {"-p", "--port"}
                    => APP_PORT' = APP_PORT ]_vars

\* C29: for every ZIP path validate_prerequisites accepted, extract_artifact
\* unpacks that same file, also when the path is relative to the directory
\* the script was invoked from.
C29_SameFileUnpacked ==
    (pc = "extracted" \/ (pc = "done" /\ failedStep = "extract_artifact"))
        => unzipped = {Resolve(PathOf(DEPLOY_ZIP_FILE), InvocationDir)}

(***************************************************************************)
(* The deployment script of the API application, run in the new release    *)
(* directory current/ after the workflow has moved the old one to          *)
(* ../previous.  The script runs under set -e: an unguarded command that   *)
(* fails ends it with a non-zero status.                                   *)
(***************************************************************************)

\* What the release directory may hold when the script starts.
ReleaseContents ==
    { {"server.js"} \cup s :
        s \in SUBSET {"package.json", "package-lock.json",
                      "ecosystem.config.js"} }

InitApiRun ==
    /\ InitCli
    /\ InitProj
    /\ InitMock
    /\ InitOverlap
    /\ pc = "idle"
    /\ run = 0
    /\ ENABLE_ROLLBACK = FALSE
    /\ artifact = {}
    /\ deployDir = [exists |-> FALSE, files |-> {}]
    /\ backups = {}
    /\ tmpDirs = {}
    /\ temp_marker = {}
    /\ backup_marker = {}
    /\ proc = {}
    /\ attempt = 1
    /\ mode = "forward"
    /\ inTrap = FALSE
    /\ exitCode = {}
    /\ trapStatus = 0
    /\ preDir = deployDir
    /\ preProc = proc
    /\ failedStep = ""
    /\ stopCalls = 0
    /\ madeBackup = {}
    /\ rollbackDone = FALSE
    /\ helpShown = FALSE
    /\ probes = 0
    /\ healthResult = ""
    /\ rollbackCalls = 0
    /\ apiPc = "check_package_json"
    /\ currentFiles \in ReleaseContents
    /\ envProvided \in BOOLEAN
    /\ pm2Installed \in BOOLEAN
    /\ previousExists \in BOOLEAN
    /\ hadPrevious = previousExists
    /\ apiApp \in BOOLEAN
    /\ healthPassed = {}
    /\ apiExit = {}

\* An unguarded command fails: set -e ends the script.
ApiAbort ==
    /\ apiPc' = "done"
    /\ apiExit' = {1}

\* if [ ! -f "package.json" ]; then ... exit 1
check_package_json ==
    /\ apiPc = "check_package_json"
    /\ IF "package.json" \in currentFiles
       THEN apiPc' = "create_env" /\ UNCHANGED apiExit
       ELSE ApiAbort
    /\ UNCHANGED <<notApi, currentFiles, envProvided, pm2Installed,
                   previousExists, hadPrevious, apiApp, healthPassed>>

\* Create .env file if environment variables are provided.
create_env ==
    /\ apiPc = "create_env"
    /\ currentFiles' = IF envProvided THEN currentFiles \cup {".env"}
                       ELSE currentFiles
    /\ apiPc' = "install_pm2"
    /\ UNCHANGED <<notApi, envProvided, pm2Installed, previousExists,
                   hadPrevious, apiApp, healthPassed, apiExit>>

\* Install PM2 globally if not already installed.
install_pm2 ==
    /\ apiPc = "install_pm2"
    /\ IF pm2Installed
       THEN apiPc' = "install_api_dependencies"
              /\ UNCHANGED <<pm2Installed, apiExit>>
       ELSE \/ /\ pm2Installed' = TRUE
               /\ apiPc' = "install_api_dependencies"
               /\ UNCHANGED apiExit
            \/ ApiAbort /\ UNCHANGED pm2Installed
    /\ UNCHANGED <<notApi, currentFiles, envProvided, previousExists,
                   hadPrevious, apiApp, healthPassed>>

\* npm ci --omit=dev, or npm install --omit=dev without a lock file.
install_api_dependencies ==
    /\ apiPc = "install_api_dependencies"
    /\ \/ /\ currentFiles' =
               currentFiles \cup {"node_modules", "package-lock.json"}
          /\ apiPc' = "create_ecosystem"
          /\ UNCHANGED apiExit
       \/ ApiAbort /\ UNCHANGED currentFiles
    /\ UNCHANGED <<notApi, envProvided, pm2Installed, previousExists,
                   hadPrevious, apiApp, healthPassed>>

\* Create ecosystem.config.js if it does not exist; mkdir -p logs.
create_ecosystem ==
    /\ apiPc = "create_ecosystem"
    /\ currentFiles' = currentFiles \cup {"ecosystem.config.js", "logs"}
    /\ apiPc' = "restart_api_app"
    /\ UNCHANGED <<notApi, envProvided, pm2Installed, previousExists,
                   hadPrevious, apiApp, healthPassed, apiExit>>

\* pm2 delete api-app || true; pm2 start ecosystem.config.js; pm2 save;
\* then the PM2 startup setup and the nginx reload, whose failures are
\* only warned about.
restart_api_app ==
    /\ apiPc = "restart_api_app"
    /\ \/ \* pm2 start fails
          /\ apiApp' = FALSE
          /\ ApiAbort
       \/ \* pm2 start succeeds, pm2 save fails
          /\ apiApp' = TRUE
          /\ ApiAbort
       \/ /\ apiApp' = TRUE
          /\ apiPc' = "api_health_check"
          /\ UNCHANGED apiExit
    /\ UNCHANGED <<notApi, currentFiles, envProvided, pm2Installed,
                   previousExists, hadPrevious, healthPassed>>

\* sleep 5; if curl -f .../api/health; then "passed" else only a warning.
api_health_check ==
    /\ apiPc = "api_health_check"
    /\ \E ok \in BOOLEAN : healthPassed' = {ok}
    /\ apiPc' = "cleanup_previous"
    /\ UNCHANGED <<notApi, currentFiles, envProvided, pm2Installed,
                   previousExists, hadPrevious, apiApp, apiExit>>

\* if [ -d "../previous" ]; then rm -rf ../previous; fi : the outcome of
\* the health check is not looked at.
cleanup_previous ==
    /\ apiPc = "cleanup_previous"
    /\ IF previousExists
       THEN \/ /\ previousExists' = FALSE
               /\ apiPc' = "report"
               /\ UNCHANGED apiExit
            \/ \* rm -rf fails
               /\ ApiAbort
               /\ UNCHANGED previousExists
       ELSE /\ apiPc' = "report"
            /\ UNCHANGED <<previousExists, apiExit>>
    /\ UNCHANGED <<notApi, currentFiles, envProvided, pm2Installed,
                   hadPrevious, apiApp, healthPassed>>

\* "Deployment completed successfully!", pm2 status, pm2 logs.
report ==
    /\ apiPc = "report"
    /\ apiPc' = "done"
    /\ \E code \in {0, 1} : apiExit' = {code}
    /\ UNCHANGED <<notApi, currentFiles, envProvided, pm2Installed,
                   previousExists, hadPrevious, apiApp, healthPassed>>

NextApi ==
    \/ check_package_json
    \/ create_env
    \/ install_pm2
    \/ install_api_dependencies
    \/ create_ecosystem
    \/ restart_api_app
    \/ api_health_check
    \/ cleanup_previous
    \/ report

SpecApi == InitApiRun /\ [][NextApi]_vars

\* C22: when the health check of the API deployment script fails after the
\* new version has been started, the previous deployment directory still
\* exists when the script ends, so that `mv previous current` is possible.
C22_PreviousKeptOnFailure ==
    (/\ apiPc = "done"
     /\ hadPrevious
     /\ apiApp
     /\ healthPassed = {FALSE})
        => previousExists

(***************************************************************************)
(* The projects API of the backend: router.use(authMiddleware), then the   *)
(* handlers of the project controller on the Project collection.  A        *)
(* document is [id, title, createdBy]; description follows the rules of    *)
(* title and is left out.                                                  *)
(***************************************************************************)
\* The most documents ever created.
MaxProjects == 2

\* The documents of the User collection, by _id.
Users == {"alice", "bob"}

\* The tokens a client presents: the userId of the payload, and whether
\* jwt.verify accepts the token (signature and expiry).
Tokens ==
    {[userId |-> u, verifies |-> TRUE] : u \in Users \cup {"ghost"}}
        \cup {[userId |-> "alice", verifies |-> FALSE]}

\* What a request carries in its cookie: nothing, or one token.
Carried == {{}} \cup {{t} : t \in Tokens}

\* What a request carries in its Authorization header: nothing, or a token
\* of bob that verifies.
Bearer == {{}, {[userId |-> "bob", verifies |-> TRUE]}}

\* The title of the body of a POST: absent, or a string.
PostTitles == {{}, {"A"}}

\* The title of the body of a PUT: absent, or a string.
PutTitles == {{}, {""}, {"B"}}

\* mongoose.Types.ObjectId.isValid; 0 stands for a string that is no ObjectId.
IsValidObjectId(id) == id >= 1

\* The requests of one route.
Requests(op, ids, titles) ==
    {[op |-> op, id |-> i, title |-> t, authorization |-> a, cookie |-> c,
      user |-> {}] : i \in ids, t \in titles, a \in Bearer, c \in Carried}

Json(status, message, data) ==
    [status |-> status, message |-> message, data |-> data]

\* authMiddleware: the user it sets on req, and the response it sends;
\* status 0 says it sent none and called next().
authMiddleware(r) ==
    LET token == r.cookie IN
    IF token = {}
    THEN [user |-> {},
          res |-> Json(401, "Access denied. No token provided.", {})]
    ELSE LET decoded == CHOOSE t \in token : TRUE IN
         IF ~decoded.verifies
         THEN [user |-> {}, res |-> Json(401, "Invalid token.", {})]
         ELSE IF decoded.userId \notin Users
         THEN [user |-> {},
               res |-> Json(401, "Invalid token. User not found.", {})]
         ELSE [user |-> {decoded.userId}, res |-> Json(0, "", {})]

\* Project.findOne({ _id }) : the filter without the owner.
FindOneById(id, userId) ==
    {p \in projects : p.id = id}

\* Project.findOne({ _id: id, createdBy: userId }), also the filter of
\* findOneAndDelete.
FindOne(id, userId) ==
    {p \in projects : p.id = id /\ p.createdBy = userId}

\* Project.find({ createdBy: userId }).
Find(userId) ==
    {p \in projects : p.createdBy = userId}

\* The required validator of the schema: the title is given and not empty.
TitleValid(title) == title # {} /\ title # {""}

\* errorHandler on the ValidationError of the title.
ValidationError == Json(400, "Title is required", {})

createProject ==
    /\ nextId <= MaxProjects
    /\ \E r \in Requests("createProject", {0}, PostTitles) :
        LET auth == authMiddleware(r) IN
        /\ req' = [r EXCEPT !.user = auth.user]
        /\ IF auth.res.status # 0
           THEN res' = auth.res /\ UNCHANGED <<projects, nextId>>
           ELSE IF auth.user = {}
           THEN /\ res' = Json(401, "User not authenticated", {})
                /\ UNCHANGED <<projects, nextId>>
           ELSE IF ~TitleValid(r.title)
           THEN res' = ValidationError /\ UNCHANGED <<projects, nextId>>
           ELSE LET userId == CHOOSE u \in auth.user : TRUE
                    project == [id |-> nextId,
                                title |-> CHOOSE t \in r.title : TRUE,
                                createdBy |-> userId] IN
                /\ projects' = projects \cup {project}
                /\ nextId' = nextId + 1
                /\ res' = Json(201, "Project created successfully", {project})
    /\ UNCHANGED notProj

getProjects ==
    /\ \E r \in Requests("getProjects", {0}, {{}}) :
        LET auth == authMiddleware(r) IN
        /\ req' = [r EXCEPT !.user = auth.user]
        /\ IF auth.res.status # 0
           THEN res' = auth.res
           ELSE IF auth.user = {}
           THEN res' = Json(401, "User not authenticated", {})
           ELSE LET userId == CHOOSE u \in auth.user : TRUE IN
                res' = Json(200, "", Find(userId))
    /\ UNCHANGED <<projects, nextId, notProj>>

getProject ==
    /\ \E r \in Requests("getProject", 0..MaxProjects, {{}}) :
        LET auth == authMiddleware(r) IN
        /\ req' = [r EXCEPT !.user = auth.user]
        /\ IF auth.res.status # 0
           THEN res' = auth.res
           ELSE IF ~IsValidObjectId(r.id)
           THEN res' = Json(400, "Invalid project ID", {})
           ELSE IF auth.user = {}
           THEN res' = Json(401, "User not authenticated", {})
           ELSE LET userId == CHOOSE u \in auth.user : TRUE
                    project == FindOne(r.id, userId) IN
                IF project = {}
                THEN res' = Json(404, "Project not found", {})
                ELSE res' = Json(200, "", project)
    /\ UNCHANGED <<projects, nextId, notProj>>

updateProject ==
    /\ \E r \in Requests("updateProject", 0..MaxProjects, PutTitles) :
        LET auth == authMiddleware(r) IN
        /\ req' = [r EXCEPT !.user = auth.user]
        /\ IF auth.res.status # 0
           THEN res' = auth.res /\ UNCHANGED projects
           ELSE IF ~IsValidObjectId(r.id)
           THEN res' = Json(400, "Invalid project ID", {}) /\ UNCHANGED projects
           ELSE IF auth.user = {}
           THEN /\ res' = Json(401, "User not authenticated", {})
                /\ UNCHANGED projects
           ELSE LET userId == CHOOSE u \in auth.user : TRUE
                    found == FindOne(r.id, userId) IN
                IF found = {}
                THEN /\ res' = Json(404, "Project not found", {})
                     /\ UNCHANGED projects
                ELSE LET project == CHOOSE p \in found : TRUE
                         title == IF r.title # {} THEN r.title
                                  ELSE {project.title}
                         saved == [project EXCEPT
                                     !.title = CHOOSE t \in title : TRUE] IN
                     IF ~TitleValid(title)
                     THEN res' = ValidationError /\ UNCHANGED projects
                     ELSE /\ projects' = (projects \ {project}) \cup {saved}
                          /\ res' = Json(200, "Project updated successfully",
                                         {saved})
    /\ UNCHANGED <<nextId, notProj>>

deleteProject ==
    /\ \E r \in Requests("deleteProject", 0..MaxProjects, {{}}) :
        LET auth == authMiddleware(r) IN
        /\ req' = [r EXCEPT !.user = auth.user]
        /\ IF auth.res.status # 0
           THEN res' = auth.res /\ UNCHANGED projects
           ELSE IF ~IsValidObjectId(r.id)
           THEN res' = Json(400, "Invalid project ID", {}) /\ UNCHANGED projects
           ELSE IF auth.user = {}
           THEN /\ res' = Json(401, "User not authenticated", {})
                /\ UNCHANGED projects
           ELSE LET userId == CHOOSE u \in auth.user : TRUE
                    project == FindOne(r.id, userId) IN
                IF project = {}
                THEN /\ res' = Json(404, "Project not found", {})
                     /\ UNCHANGED projects
                ELSE /\ projects' = projects \ project
                     /\ res' = Json(200, "Project deleted successfully", {})
    /\ UNCHANGED <<nextId, notProj>>

NextProjects ==
    \/ createProject
    \/ getProjects
    \/ getProject
    \/ updateProject
    \/ deleteProject

\* The scripts at rest.
InitAtRest ==
    /\ InitApiRun
    /\ currentFiles = {"package.json", "server.js"}
    /\ envProvided = FALSE
    /\ pm2Installed = TRUE
    /\ previousExists = FALSE
    /\ apiApp = FALSE

\* An empty collection, as InitProj has it.
InitProjects == InitAtRest

SpecProjects == InitProjects /\ [][NextProjects]_vars

C24_HeaderTokenDecides ==
    \A t \in req.authorization :
        (t.verifies /\ t.userId \in Users) => req.user = {t.userId}

(***************************************************************************)
(* The mock API: POST /api/users.  A field of the body is {} when the      *)
(* body lacks it and {v} when it has the value v.                          *)
(***************************************************************************)
\* The bodies a client posts.
Bodies ==
    [name  : {{}, {""}, {"Test User"}, {"Edge Case User"}},
     email : {{}, {""}, {"test@example.com"}, {"edge@example.com"}},
     age   : {{}, {0}, {1}, {28}, {-1}, {150}}]

\* !v of JavaScript on a string field: undefined and "" are falsy.
NotString(v) == v = {} \/ v = {""}

\* !v of JavaScript on a number field: undefined and 0 are falsy.
NotNumber(v) == v = {} \/ v = {0}

\* Math.floor(Math.random() * 1000) + 4, at its ends.
RandomIds == {4, 1003}

post_users ==
    /\ \E b \in Bodies, id \in RandomIds :
        /\ body' = b
        /\ IF NotString(b.name) \/ NotString(b.email) \/ NotNumber(b.age)
           THEN reply' = Json(400, "Please provide name, email, and age", {})
           ELSE reply' = Json(201, "User created successfully",
                              {[id |-> id, name |-> b.name,
                                email |-> b.email, age |-> b.age]})
    /\ UNCHANGED notMock

NextMock ==
    \/ post_users

SpecMock == InitAtRest /\ [][NextMock]_vars

\* C25: POST /api/users answers 201 echoing name, email and age whenever
\* the body provides all three (edge-case ages included), and answers 400
\* 'Please provide name, email, and age' exactly when one of them is missing.
C25_CreatedWhenAllProvided ==
    reply.status # 0 =>
        LET provided == body.name # {} /\ body.email # {} /\ body.age # {} IN
        /\ provided =>
             /\ reply.status = 201
             /\ \E d \in reply.data :
                    d.name = body.name /\ d.email = body.email
                        /\ d.age = body.age
        /\ (reply.status = 400) <=> ~provided
        /\ reply.status = 400 =>
             reply.message = "Please provide name, email, and age"

\* C26: once main_deployment has set the ERR trap, every failure of a
\* forward step, by an explicit `return 1` of the step function or by an
\* unguarded command failing inside it under set -e, runs the failure
\* handler (cleanup, then rollback_deployment when rollback is enabled)
\* before the script exits.  The steps that leave by `exit 1` of their own
\* (validate_prerequisites) or are called in a condition (health_check) are
\* not among the steps the property is stated for.
C26_FailureRunsHandler ==
    (/\ pc = "done"
     /\ failedStep \in {"create_backup", "extract_artifact",
                        "stop_existing_process", "deploy_new_version",
                        "install_dependencies", "start_application"})
        => inTrap

\* C28: across any sequence of sequential runs, rollback_deployment only
\* restores a backup that create_backup created in the same run: while it
\* restores, the backup-path marker names the backup of this run, never one
\* an earlier run left behind.
C28_RestoresOwnBackup ==
    (mode = "rollback" /\ pc = "restore_backup")
        => (backup_marker = {run} /\ madeBackup = {run})

(***************************************************************************)
(* Two runs of the script overlapping on one host, both with -r.  Only     *)
(* the steps that touch the staging directories, the backups, the two      *)
(* marker files and the deployment directory are followed; the PM2 steps   *)
(* and npm touch none of them.  The contents of a directory are the set of *)
(* the releases its files come from.                                       *)
(***************************************************************************)
\* The seconds `date` may return during the two runs.
MaxClock == 2

\* The directory of the given name among dirs, as a set of at most one.
Named(dirs, name) == {d \in dirs : d.name \in name}

\* The run p moves to the position at, with the locals changed as given.
Moved(p, at) == [runs EXCEPT ![p].pc = at]

\* An unguarded command fails inside a function: set -e ends the run.
Ended(p) == [runs EXCEPT ![p].pc = "done", ![p].failed = TRUE]

\* A second passes.
tick ==
    /\ shared.clock < MaxClock
    /\ shared' = [shared EXCEPT !.clock = @ + 1]
    /\ UNCHANGED <<runs, notOverlap>>

overlap_create_backup ==
    /\ \E p \in OverlapRuns :
        /\ runs[p].pc = "create_backup"
        /\ IF shared.deployDir = {}
           THEN \* "No existing deployment to backup"
                /\ runs' = Moved(p, "extract_artifact")
                /\ UNCHANGED shared
           ELSE \* cp -r into a directory that exists copies under it
                /\ shared' =
                     [shared EXCEPT
                        !.backups =
                            IF Named(@, {shared.clock}) # {} THEN @
                            ELSE @ \cup {[name |-> shared.clock,
                                          files |-> shared.deployDir]},
                        !.backup_marker = {shared.clock}]
                /\ runs' = [runs EXCEPT ![p].pc = "extract_artifact",
                                        ![p].backup_path = {shared.clock}]
    /\ UNCHANGED notOverlap

overlap_extract_artifact ==
    /\ \E p \in OverlapRuns :
        /\ runs[p].pc = "extract_artifact"
        /\ LET temp_path == shared.clock
               there == Named(shared.tmp, {temp_path}) IN
           IF there = {}
           THEN /\ shared' = [shared EXCEPT
                                !.tmp = @ \cup {[name |-> temp_path,
                                                 files |-> {p}]},
                                !.temp_marker = {temp_path}]
                /\ runs' = [runs EXCEPT ![p].pc = "deploy_new_version",
                                        ![p].temp_path = {temp_path}]
           ELSE \* mkdir -p succeeds on the directory of the other run;
                \* unzip finds its files there: it keeps them, replaces
                \* them, or fails
                \/ /\ \E files \in {f.files : f \in there} \cup {{p}} :
                        shared' = [shared EXCEPT
                                     !.tmp = (@ \ there) \cup
                                               {[name |-> temp_path,
                                                 files |-> files]},
                                     !.temp_marker = {temp_path}]
                   /\ runs' = [runs EXCEPT ![p].pc = "deploy_new_version",
                                           ![p].temp_path = {temp_path}]
                \/ /\ runs' = [runs EXCEPT ![p].pc = "cleanup",
                                           ![p].temp_path = {temp_path},
                                           ![p].failed = TRUE]
                   /\ UNCHANGED shared
    /\ UNCHANGED notOverlap

overlap_deploy_new_version ==
    /\ \E p \in OverlapRuns :
        /\ runs[p].pc = "deploy_new_version"
        /\ LET staged == Named(shared.tmp, shared.temp_marker) IN
           IF shared.temp_marker = {}
           THEN \* temp_path=$(cat /tmp/deployment_temp_path) fails
                /\ runs' = Ended(p)
                /\ UNCHANGED shared
           ELSE IF staged = {}
           THEN \* rm -rf has emptied the directory when cp -r fails
                /\ shared' = [shared EXCEPT !.deployDir = {}]
                /\ runs' = Ended(p)
           ELSE LET files == UNION {d.files : d \in staged} IN
                /\ shared' = [shared EXCEPT !.deployDir = files]
                /\ runs' = [runs EXCEPT ![p].pc = "health_check",
                                        ![p].deployed = files]
    /\ UNCHANGED notOverlap

overlap_health_check ==
    /\ \E p \in OverlapRuns :
        /\ runs[p].pc = "health_check"
        /\ \E ok \in BOOLEAN :
              runs' = Moved(p, IF ok THEN "cleanup" ELSE "rollback_deployment")
    /\ UNCHANGED <<shared, notOverlap>>

overlap_rollback_deployment ==
    /\ \E p \in OverlapRuns :
        /\ runs[p].pc = "rollback_deployment"
        /\ LET backup == Named(shared.backups, shared.backup_marker) IN
           IF shared.backup_marker = {}
           THEN \* backup_path=$(cat /tmp/deployment_backup_path) fails
                /\ runs' = Ended(p)
                /\ UNCHANGED shared
           ELSE IF backup = {}
           THEN \* "No backup found for rollback": return 1, the ERR trap
                /\ runs' = [runs EXCEPT ![p].pc = "cleanup",
                                        ![p].failed = TRUE]
                /\ UNCHANGED shared
           ELSE /\ shared' = [shared EXCEPT
                                !.deployDir = UNION {b.files : b \in backup}]
                /\ runs' = [runs EXCEPT ![p].pc = "done",
                                        ![p].restored = shared.backup_marker,
                                        ![p].failed = TRUE]
    /\ UNCHANGED notOverlap

\* cleanup at the end of main_deployment or, after a failure, in the ERR
\* trap, where rollback_deployment follows and finds no marker.
overlap_cleanup ==
    /\ \E p \in OverlapRuns :
        /\ runs[p].pc = "cleanup"
        /\ IF shared.temp_marker = {}
           THEN \* temp_path=$(cat /tmp/deployment_temp_path) fails
                /\ runs' = Ended(p)
                /\ UNCHANGED shared
           ELSE /\ shared' = [shared EXCEPT
                                !.tmp = @ \ Named(@, shared.temp_marker),
                                !.temp_marker = {},
                                !.backup_marker = {}]
                /\ runs' = Moved(p, "done")
    /\ UNCHANGED notOverlap

NextOverlap ==
    \/ tick
    \/ overlap_create_backup
    \/ overlap_extract_artifact
    \/ overlap_deploy_new_version
    \/ overlap_health_check
    \/ overlap_rollback_deployment
    \/ overlap_cleanup

SpecOverlap == InitAtRest /\ [][NextOverlap]_vars

\* C27: two overlapping runs on one host never share a staging directory or
\* read each other's hand-off state: a run deploys the artifact it extracted
\* itself and, on rollback, restores the backup it created itself.
C27_RunsIsolated ==
    \A p \in OverlapRuns :
        /\ \A q \in OverlapRuns \ {p} :
               runs[p].temp_path # {} => runs[p].temp_path # runs[q].temp_path
        /\ runs[p].deployed # {} => runs[p].deployed = {p}
        /\ runs[p].restored # {} => runs[p].restored = runs[p].backup_path

(***************************************************************************)
(* Termination of a run.  The shell runs the next command as soon as the   *)
(* current one has returned, so a run that is not over takes its next      *)
(* step; whether another run is started is up to the operator.             *)
(***************************************************************************)
\* The steps of a run.
Steps ==
    \/ validate_prerequisites
    \/ create_backup
    \/ extract_artifact
    \/ stop_existing_process
    \/ deploy_new_version
    \/ install_dependencies
    \/ start_application
    \/ health_check
    \/ cleanup
    \/ rollback_deployment
    \/ restore_backup

\* The runs followed to their end.
MaxLiveRuns == 1

\* The operator starts a run.
StartLiveRun ==
    /\ run < MaxLiveRuns
    /\ StartRun

NextLive ==
    \/ StartLiveRun
    \/ validate_prerequisites
    \/ create_backup
    \/ extract_artifact
    \/ stop_existing_process
    \/ deploy_new_version
    \/ install_dependencies
    \/ start_application
    \/ health_check
    \/ cleanup
    \/ rollback_deployment
    \/ restore_backup

SpecLive == Init /\ [][NextLive]_vars /\ WF_vars(Steps)

\* The place of a position in the text of main_deployment: the forward
\* steps, the rollback of the health-check branch, the ERR trap handler
\* with its own rollback, the end.
Phase(at, in, trapped) ==
    IF at = "done" THEN 21
    ELSE IF at = "trap_cleanup" THEN 15
    ELSE IF at = "rollback_deployment" THEN (IF trapped THEN 16 ELSE 10)
    ELSE IF in = "rollback"
    THEN (IF trapped THEN 16 ELSE 10) +
         (CASE at = "stop_existing_process" -> 1
            [] at = "restore_backup"        -> 2
            [] at = "install_dependencies"  -> 3
            [] at = "start_application"     -> 4
            [] OTHER                        -> 0)
    ELSE CASE at = "validate_prerequisites" -> 1
           [] at = "create_backup"          -> 2
           [] at = "extract_artifact"       -> 3
           [] at = "stop_existing_process"  -> 4
           [] at = "deploy_new_version"     -> 5
           [] at = "install_dependencies"   -> 6
           [] at = "start_application"      -> 7
           [] at = "health_check"           -> 8
           [] at = "cleanup"                -> 9
           [] OTHER                         -> 0

====
